---- MODULE Spec2Model ----
(***************************************************************************)
(* Shopify -> Bitrix24 order/deal reconciliation.                          *)
(*                                                                         *)
(* Models pages/api/webhook (handler, handleOrderCreated,                  *)
(* handleOrderUpdated) against a CRM holding deals, and the pure           *)
(* discount computation of ShopifyAdapter.transformToBitrix.               *)
(* Every `await callBitrix(...)` is one atomic step of a delivery: the CRM *)
(* serves the call and the handler runs on to its next await.              *)
(***************************************************************************)
EXTENDS Integers, Sequences, FiniteSets, TLC

(***************************************************************************)
(* Bounds                                                                  *)
(***************************************************************************)
MaxProcs == 2          \* webhook deliveries that may be in flight together
MaxDeliveries == 3     \* deliveries received in one behaviour
MaxOrderId == 2        \* order identifiers are 1..MaxOrderId
MaxStrLen == 3         \* length of the decimal strings fed to parseNumber
MaxCodes == 2          \* entries of an order's discount_codes list
MaxForeign == 2        \* deals the CRM holds that this handler did not create
MaxNameLen == 2        \* characters of a first or last name

(***************************************************************************)
(* JavaScript values: undefined, null, numbers (hundredths, so that 5.5 is *)
(* 550), strings (sequences of one-character strings).                     *)
(***************************************************************************)
Undefined == [t |-> "undefined", n |-> 0, s |-> <<>>]
Null == [t |-> "null", n |-> 0, s |-> <<>>]
NaN == [t |-> "nan", n |-> 0, s |-> <<>>]
Num(v) == [t |-> "num", n |-> v, s |-> <<>>]
Str(chars) == [t |-> "str", n |-> 0, s |-> chars]

Digits == <<"0", "1", "2", "3", "4", "5", "6", "7", "8", "9">>
IsDigit(c) == \E i \in 1..10 : Digits[i] = c
DigitVal(c) == (CHOOSE i \in 1..10 : Digits[i] = c) - 1

\* JS truthiness of a value
Truthy(v) ==
    CASE v.t = "num" -> v.n # 0
      [] v.t = "str" -> Len(v.s) > 0
      [] OTHER -> FALSE

\* the digits of the longest all-digit prefix of a string
RECURSIVE DigitPrefix(_)
DigitPrefix(s) ==
    IF s = <<>> \/ ~IsDigit(Head(s)) THEN <<>>
    ELSE <<Head(s)>> \o DigitPrefix(Tail(s))

RECURSIVE DigitsValue(_)
DigitsValue(s) ==
    IF s = <<>> THEN 0 ELSE 10 * DigitsValue(SubSeq(s, 1, Len(s) - 1)) + DigitVal(s[Len(s)])

RECURSIVE SkipSpaces(_)
SkipSpaces(s) == IF s # <<>> /\ Head(s) = " " THEN SkipSpaces(Tail(s)) ELSE s

Drop(s, k) == SubSeq(s, k + 1, Len(s))

\* the fraction digits d1 d2 ... as hundredths (later digits are below the
\* resolution of the model's numbers)
FracHundredths(f) ==
    (IF Len(f) >= 1 THEN 10 * DigitVal(f[1]) ELSE 0) + (IF Len(f) >= 2 THEN DigitVal(f[2]) ELSE 0)

\* JS parseFloat: leading white space skipped, then the longest prefix
\* digits[.digits] or .digits; NaN when that prefix has no digit
ParseFloat(chars) ==
    LET s == SkipSpaces(chars)
        ip == DigitPrefix(s)
        r == Drop(s, Len(ip))
        fp == IF r # <<>> /\ Head(r) = "." THEN DigitPrefix(Tail(r)) ELSE <<>>
    IN IF ip = <<>> /\ fp = <<>> THEN NaN
       ELSE Num(100 * DigitsValue(ip) + FracHundredths(fp))

(***************************************************************************)
(* ShopifyAdapter.transformToBitrix: the discount total                    *)
(***************************************************************************)
\* parseNumber helper of transformToBitrix
ParseNumber(value) ==
    IF value.t \in {"null", "undefined"} \/ value = Str(<<>>) THEN Null
    ELSE LET num == IF value.t = "str" THEN ParseFloat(value.s) ELSE value
         IN IF num.t = "nan" THEN Null ELSE num

\* amount || 0 of the reduce callback
AmountOrZero(amount) == IF Truthy(amount) THEN amount.n ELSE 0

RECURSIVE SumCodes(_)
SumCodes(codes) ==
    IF codes = <<>> THEN 0
    ELSE SumCodes(SubSeq(codes, 1, Len(codes) - 1)) + AmountOrZero(ParseNumber(codes[Len(codes)]))

\* discount_codes is absent, a truthy non-array, or an array of codes, each
\* given by its amount
NoCodes == [k |-> "undefined", codes |-> <<>>]
NotArrayCodes == [k |-> "string", codes |-> <<>>]
Codes(amounts) == [k |-> "array", codes |-> amounts]

\* the test without the length check
CodesNonEmptyArray_AnyArray(dc) == dc.k = "array"

CodesNonEmptyArray(dc) == dc.k = "array" /\ Len(dc.codes) > 0

TotalDiscount(discount_codes, total_discounts) ==
    IF CodesNonEmptyArray(discount_codes)
    THEN LET sum == SumCodes(discount_codes.codes)
         IN IF sum = 0 THEN Null ELSE Num(sum)
    ELSE IF Truthy(total_discounts) THEN ParseNumber(total_discounts)
    ELSE Null

(***************************************************************************)
(* Join keys: String(), Number() and trim() as the handlers use them       *)
(***************************************************************************)
RECURSIVE NatDigits(_)
NatDigits(n) == IF n < 10 THEN <<Digits[n + 1]>> ELSE NatDigits(n \div 10) \o <<Digits[(n % 10) + 1]>>

\* String(v) of a string or of a whole number
JsString(v) ==
    CASE v.t = "str" -> v.s
      [] v.t = "num" -> NatDigits(v.n \div 100)
      [] v.t = "null" -> <<"n", "u", "l", "l">>
      [] OTHER -> <<"u", "n", "d", "e", "f", "i", "n", "e", "d">>

RECURSIVE TrimRight(_)
TrimRight(s) == IF s # <<>> /\ s[Len(s)] = " " THEN TrimRight(SubSeq(s, 1, Len(s) - 1)) ELSE s

Trim(s) == TrimRight(SkipSpaces(s))

\* Number(v): the whole trimmed string must be a numeral, "" is 0
JsNumber(v) ==
    CASE v.t = "num" -> v
      [] v.t = "null" -> Num(0)
      [] v.t = "str" ->
           LET t == Trim(v.s)
               ip == DigitPrefix(t)
               r == Drop(t, Len(ip))
               fp == IF r # <<>> /\ Head(r) = "." THEN DigitPrefix(Tail(r)) ELSE <<>>
               used == Len(ip) + (IF r # <<>> /\ Head(r) = "." THEN 1 + Len(fp) ELSE 0)
           IN IF t = <<>> THEN Num(0)
              ELSE IF used = Len(t) /\ (ip # <<>> \/ fp # <<>>) THEN ParseFloat(t)
              ELSE NaN
      [] OTHER -> NaN

\* strict equality of the raw values, without String() or Number()
StrictMatch_Raw(d, orderId) == d.UF_SHOPIFY_ORDER_ID = orderId

\* the strict client-side filter of handleOrderUpdated (both queries)
StrictMatch(d, orderId) ==
    LET dealOrderId == d.UF_SHOPIFY_ORDER_ID
        shopifyOrderId == JsString(orderId)
        shopifyOrderIdNum == JsNumber(orderId)
        dealOrderIdNum == JsNumber(dealOrderId)
    IN /\ Truthy(dealOrderId)
       /\ \/ JsString(dealOrderId) = shopifyOrderId
          \/ dealOrderIdNum.t # "nan" /\ dealOrderIdNum = shopifyOrderIdNum
          \/ Trim(JsString(dealOrderId)) = Trim(shopifyOrderId)

\* the test without String(): a string key compared to the raw identifier
ExactMatch_Raw(d, orderId) == d.UF_SHOPIFY_ORDER_ID = orderId

\* the exact-match test of handleOrderCreated
ExactMatch(d, orderId) == JsString(d.UF_SHOPIFY_ORDER_ID) = JsString(orderId)

(***************************************************************************)
(* Category from the order's tags                                          *)
(***************************************************************************)
CATEGORY_STOCK == 2
CATEGORY_PREORDER == 8
NoCategory == -1       \* a field set without CATEGORY_ID
Absent == "absent"     \* a field set without that string field

preorderTags == {"pre-order", "preorder-product-added"}

\* toLowerCase and trim over the tag texts of the model
ToLowerCase(tag) ==
    CASE tag = "Pre-Order" -> "pre-order"
      [] tag = "PRE-ORDER" -> "pre-order"
      [] tag = " Pre-Order" -> " pre-order"
      [] tag = "Preorder-Product-Added" -> "preorder-product-added"
      [] tag = " Preorder-Product-Added" -> " preorder-product-added"
      [] tag = "VIP" -> "vip"
      [] OTHER -> tag

TrimTag(tag) ==
    CASE tag = " pre-order" -> "pre-order"
      [] tag = " Pre-Order" -> "Pre-Order"
      [] tag = " preorder-product-added" -> "preorder-product-added"
      [] tag = " Preorder-Product-Added" -> "Preorder-Product-Added"
      [] tag = " vip" -> "vip"
      [] OTHER -> tag

\* order.tags: absent, an array of tags, or one comma-separated string given
\* by its pieces between the commas ("" is the single piece "")
NoTags == [k |-> "undefined", items |-> <<>>]
TagArray(items) == [k |-> "array", items |-> items]
TagString(pieces) == [k |-> "string", items |-> pieces]

OrderTags(tags) ==
    CASE tags.k = "array" -> tags.items
      [] tags.k = "string" /\ tags.items # <<"">> -> [i \in 1..Len(tags.items) |-> TrimTag(tags.items[i])]
      [] OTHER -> <<>>

hasPreorderTag(tags) ==
    LET orderTags == OrderTags(tags)
    IN \E i \in 1..Len(orderTags) : \E preorderTag \in preorderTags :
          ToLowerCase(orderTags[i]) = ToLowerCase(preorderTag)

CategoryFromTags(tags) == IF hasPreorderTag(tags) THEN CATEGORY_PREORDER ELSE CATEGORY_STOCK

(***************************************************************************)
(* Stage / status policy and the deal field mapper                         *)
(***************************************************************************)
StageId(cat, name) ==
    CASE cat = CATEGORY_STOCK /\ name = "NEW" -> "C2:NEW"
      [] cat = CATEGORY_STOCK /\ name = "WON" -> "C2:WON"
      [] cat = CATEGORY_STOCK /\ name = "LOSE" -> "C2:LOSE"
      [] cat = CATEGORY_PREORDER /\ name = "NEW" -> "C8:NEW"
      [] cat = CATEGORY_PREORDER /\ name = "WON" -> "C8:WON"
      [] cat = CATEGORY_PREORDER /\ name = "LOSE" -> "C8:LOSE"
      [] OTHER -> name

\* (financialStatus, category, currentStage) -> targetStage
financialStatusToStageId(status, cat, currentStageId) ==
    CASE status = "paid" -> StageId(cat, "WON")
      [] status = "partially_refunded" -> StageId(cat, "WON")
      [] status \in {"pending", "partially_paid"} -> StageId(cat, "NEW")
      [] status \in {"refunded", "voided", "cancelled"} -> StageId(cat, "LOSE")
      [] OTHER -> currentStageId

\* (financialStatus) -> paymentStatusCode
financialStatusToPaymentStatus(status) ==
    CASE status = "paid" -> "PAID"
      [] status = "partially_refunded" -> "PARTIALLY_REFUNDED"
      [] status = "refunded" -> "REFUNDED"
      [] status \in {"pending", "partially_paid"} -> "UNPAID"
      [] status \in {"voided", "cancelled"} -> "CANCELLED"
      [] OTHER -> "UNKNOWN"

\* order.financial_status?.toLowerCase() || ''
StatusLower(status) ==
    CASE status = Absent -> ""
      [] status = "Partially_Refunded" -> "partially_refunded"
      [] status = "REFUNDED" -> "refunded"
      [] OTHER -> status

\* one product row per line item
ProductRows(line_items) ==
    [i \in 1..Len(line_items) |->
        [PRODUCT_NAME |-> line_items[i].title, QUANTITY |-> line_items[i].quantity,
         PRICE |-> ParseNumber(line_items[i].price)]]

\* mapShopifyOrderToBitrixDeal: the fields the handlers read; mcat is the
\* category the mapper puts into dealFields (NoCategory: none)
MapOrder(order, mcat) ==
    [dealFields |->
        [OPPORTUNITY |-> ParseNumber(order.totals.total_price),
         UF_SHOPIFY_TOTAL_DISCOUNT |-> TotalDiscount(NoCodes, order.totals.total_discounts),
         UF_SHOPIFY_TOTAL_TAX |-> ParseNumber(order.totals.total_tax),
         UF_SHOPIFY_SHIPPING_PRICE |-> ParseNumber(order.totals.shipping_price),
         CATEGORY_ID |-> mcat,
         UF_SHOPIFY_ORDER_ID |-> Str(JsString(order.id))],
     productRows |-> ProductRows(order.line_items)]

\* mapped || 0
OrZero(v) == IF Truthy(v) THEN v ELSE Num(0)

(***************************************************************************)
(* The CRM: deals in creation order; ID and DATE_CREATE are assigned on    *)
(* creation.                                                               *)
(***************************************************************************)
NoDeal == [ID |-> 0, UF_SHOPIFY_ORDER_ID |-> Undefined, CATEGORY_ID |-> 0, STAGE_ID |-> Absent,
           DATE_CREATE |-> 0, rows |-> <<>>]

RECURSIVE SortByDateDesc(_)
SortByDateDesc(ds) ==
    IF ds = <<>> THEN <<>>
    ELSE LET i == CHOOSE j \in 1..Len(ds) : \A k \in 1..Len(ds) : ds[k].DATE_CREATE <= ds[j].DATE_CREATE
         IN <<ds[i]>> \o SortByDateDesc(SubSeq(ds, 1, i - 1) \o SubSeq(ds, i + 1, Len(ds)))

Reverse(q) == [i \in 1..Len(q) |-> q[Len(q) + 1 - i]]

\* order: {DATE_CREATE: 'DESC'} as the CRM serves it: sorted when it honours
\* the request, oldest first when it does not
Ordered(ds, ord) == IF ord = "desc" THEN SortByDateDesc(ds) ELSE Reverse(SortByDateDesc(ds))

\* crm.deal.list with filter {UF_SHOPIFY_ORDER_ID: key}
FindByKey(deals, key, ord) ==
    Ordered(SelectSeq(deals, LAMBDA d : d.UF_SHOPIFY_ORDER_ID = Str(key)), ord)

\* what a filtered crm.deal.list answers: the deals with the key, or, when
\* the CRM ignores the filter ("loose"), all its deals
ListResult(deals, key, ord, out) ==
    IF out = "loose" THEN Ordered(deals, ord) ELSE FindByKey(deals, key, ord)

\* crm.deal.list without filter: the recent window
RecentWindow == 100
FindRecent(deals, ord) == LET all == Ordered(deals, ord) IN SubSeq(all, 1, IF Len(all) < RecentWindow THEN Len(all) ELSE RecentWindow)

Limit(ds, n) == SubSeq(ds, 1, IF Len(ds) < n THEN Len(ds) ELSE n)

\* crm.deal.add: the new deal enters the first stage of its category (the
\* default category 0 when the fields name none)
NewDeal(deals, fields) ==
    LET cat == IF fields.CATEGORY_ID = NoCategory THEN 0 ELSE fields.CATEGORY_ID
    IN [ID |-> Len(deals) + 1, UF_SHOPIFY_ORDER_ID |-> fields.UF_SHOPIFY_ORDER_ID,
        CATEGORY_ID |-> cat, STAGE_ID |-> StageId(cat, "NEW"),
        DATE_CREATE |-> Len(deals) + 1, rows |-> <<>>]

\* crm.deal.update: the fields present overwrite the deal's
UpdatedDeal(d, fields) ==
    [d EXCEPT !.CATEGORY_ID = IF fields.CATEGORY_ID = NoCategory THEN @ ELSE fields.CATEGORY_ID,
              !.STAGE_ID = IF fields.STAGE_ID = Absent THEN @ ELSE fields.STAGE_ID]

\* crm.deal.productrows.set: full replacement
WithRows(d, rows) == [d EXCEPT !.rows = rows]

(***************************************************************************)
(* Inputs                                                                  *)
(***************************************************************************)
Procs == 1..MaxProcs
OrderIds == 1..MaxOrderId

OrderTopics == {"orders/create", "orders/updated"}

TagInputs == {NoTags, TagArray(<<"Pre-Order">>), TagString(<<"vip", " preorder-product-added">>)}

Statuses == {"paid", "refunded", "partially_refunded", "disputed"}

LineItemInputs ==
    {<<>>, <<[title |-> "A", quantity |-> 1, price |-> Str(<<"5">>)],
             [title |-> "B", quantity |-> 2, price |-> Str(<<"0", ".", "5">>)]>>}

TotalsInputs ==
    {[total_price |-> Str(<<"5">>), total_tax |-> Str(<<"0", ".", "5">>),
      total_discounts |-> Str(<<"5">>), shipping_price |-> Str(<<"5">>)],
     [total_price |-> Str(<<"5">>), total_tax |-> Undefined,
      total_discounts |-> Undefined, shipping_price |-> Undefined]}

Orders ==
    [id : {Num(100 * i) : i \in OrderIds}, tags : TagInputs, financial_status : Statuses,
     line_items : LineItemInputs, totals : TotalsInputs]

NoOrder ==
    [id |-> Undefined, tags |-> NoTags, financial_status |-> Absent, line_items |-> <<>>,
     totals |-> [total_price |-> Undefined, total_tax |-> Undefined,
                 total_discounts |-> Undefined, shipping_price |-> Undefined]]

\* categories the mapper may put into dealFields
MapperCategories == {NoCategory, CATEGORY_STOCK, CATEGORY_PREORDER}

OrderNo(order) == IF order.id.t = "num" THEN order.id.n \div 100 ELSE 0

(***************************************************************************)
(* State                                                                   *)
(***************************************************************************)
VARIABLES
    crm,        \* the CRM's deals, in creation order
    pc,         \* pc[p]: where delivery slot p stands in its handler
    req,        \* req[p]: topic and body of the request slot p serves
    loc,        \* loc[p]: local variables of the handler (existed: whether the
                \* CRM held a deal of the order when the request arrived)
    sent,       \* sent[p]: the mutations the delivery has issued so far
    resp,       \* resp[p]: status code sent, 0 while none
    delivered,  \* requests received so far
    adds,       \* adds[i]: crm.deal.add calls issued for order i
    okDone,     \* okDone[i]: order deliveries for order i answered with 200
    storage,    \* the adapter's in-memory event store
    ended,      \* ended[p]: how the request ended ("" while it runs)
    log,        \* log[p]: outcome of each call of the delivery, the entry
                \* point that ran and the outcome of the store write
    mIn,        \* order given to transformToBitrix
    mOut,       \* its discount total or customer name, once computed
    got,        \* the list the last getAllEvents call returned
    stores      \* storeEvent calls that returned since the last clearEvents

vars == <<crm, pc, req, loc, sent, resp, delivered, adds, okDone, storage, ended, log, mIn, mOut, got, stores>>
recVars == <<crm, pc, req, loc, sent, resp, delivered, adds, okDone, storage, ended, log>>
mapVars == <<mIn, mOut, got, stores>>

NoReq == [method |-> "", topic |-> "", null |-> FALSE, order |-> NoOrder]
NoLog ==
    [list |-> "", fallback |-> "", contact |-> "", add |-> "", upd |-> "", rows |-> "",
     faults |-> 0, entry |-> "", stored |-> ""]

\* req.body: an object (the order) or null
Body(order) == [null |-> FALSE, order |-> order]
NullBody == [null |-> TRUE, order |-> NoOrder]

\* index of adds and okDone: 0 stands for a body without id
OrderKeys == 0..MaxOrderId
NoLoc == [matches |-> <<>>, deal |-> NoDeal, dealId |-> 0, contactId |-> 0, fallback |-> FALSE,
          existed |-> FALSE,
     primary |-> -1, secondary |-> -1, fallbacks |-> 0]

NoAdd == [issued |-> FALSE, CATEGORY_ID |-> NoCategory, UF_SHOPIFY_ORDER_ID |-> Undefined, CONTACT_ID |-> 0]
NoFields ==
    [OPPORTUNITY |-> Undefined, UF_SHOPIFY_TOTAL_DISCOUNT |-> Undefined, UF_SHOPIFY_TOTAL_TAX |-> Undefined,
     UF_SHOPIFY_SHIPPING_PRICE |-> Undefined, CATEGORY_ID |-> NoCategory, STAGE_ID |-> Absent,
     UF_CRM_1739183959976 |-> Absent]
NoUpd == [issued |-> FALSE, id |-> 0, fields |-> NoFields]
NoRowsCall == [issued |-> FALSE, id |-> 0, rows |-> <<>>]
NoSent == [add |-> NoAdd, upd |-> NoUpd, rows |-> NoRowsCall]

NoMapIn == [discount_codes |-> NoCodes, total_discounts |-> Undefined]
Pending == [t |-> "pending", n |-> 0, s |-> <<>>]

\* no request has arrived yet
IdleInit ==
    /\ pc = [p \in Procs |-> "idle"]
    /\ req = [p \in Procs |-> NoReq]
    /\ loc = [p \in Procs |-> NoLoc]
    /\ sent = [p \in Procs |-> NoSent]
    /\ resp = [p \in Procs |-> 0]
    /\ delivered = 0
    /\ adds = [i \in OrderKeys |-> 0]
    /\ okDone = [i \in OrderKeys |-> 0]
    /\ storage = <<>>
    /\ ended = [p \in Procs |-> ""]
    /\ log = [p \in Procs |-> NoLog]
    /\ got = <<>>
    /\ stores = 0

RecInit == crm = <<>> /\ IdleInit

Init == RecInit /\ mIn = NoMapIn /\ mOut = Pending

(***************************************************************************)
(* handler: receipt and response                                           *)
(***************************************************************************)
\* a handler that answers every request with the success status
HandlerStatus_Ok(how) == 200

\* the status the handler answers with: 200 after the try block, 500 from
\* its catch, 405 for a method other than POST
HandlerStatus(how) ==
    CASE how = "returned" -> 200
      [] how = "raised" -> 500
      [] OTHER -> 405

\* res.status(code)...: the request ends
Respond(p, how) ==
    /\ resp' = [resp EXCEPT ![p] = HandlerStatus(how)]
    /\ ended' = [ended EXCEPT ![p] = how]
    /\ pc' = [pc EXCEPT ![p] = "done"]
    /\ okDone' = IF HandlerStatus(how) = 200 /\ req[p].topic \in OrderTopics
                 THEN [okDone EXCEPT ![OrderNo(req[p].order)] = @ + 1] ELSE okDone

\* the entry point returned / raised
Return(p) == Respond(p, "returned")
Raise(p) == Respond(p, "raised")

Goto(p, label) ==
    /\ pc' = [pc EXCEPT ![p] = label]
    /\ UNCHANGED <<resp, okDone, ended>>

\* an awaited call ended with outcome out
Failures == {"throw", "empty"}
Logged(p, call, out) ==
    log' = [log EXCEPT ![p][call] = out, ![p].faults = @ + (IF out \in Failures THEN 1 ELSE 0)]

\* the deals whose join key is the stringified order identifier
DealsFor(deals, orderId) == {k \in 1..Len(deals) : deals[k].UF_SHOPIFY_ORDER_ID = Str(JsString(orderId))}
HasDealFor(deals, orderId) == DealsFor(deals, orderId) # {}

\* storeEvent reads payload.id: it throws for a null body
StoreThrows(body) == body.null

\* uniqueId of the n-th request: a string no other event has
Uid(n) == [t |-> "uid", n |-> n, s |-> <<>>]

\* the event storeEvent pushes: id is the unique id, orderId is
\* payload.id || null
StoredEvent(body, n) ==
    [id |-> Uid(n), orderId |-> IF Truthy(body.order.id) THEN body.order.id ELSE Null]

\* the topic the handler reads: /api/webhook/refund/crt overwrites the header
TopicOf(endpoint, header) == IF endpoint = "refund/crt" THEN "refunds/create" ELSE header

\* the entry point the handler routes the topic to
EntryPoint(topic) ==
    CASE topic = "orders/create" -> "handleOrderCreated"
      [] topic = "orders/updated" -> "handleOrderUpdated"
      [] topic = "products/update" -> "handleProductUpdated"
      [] OTHER -> "none"

\* a store write whose exception reaches the handler's catch
AfterStore_Fatal(storeFailed, topic) == IF storeFailed THEN "raise" ELSE EntryPoint(topic)

\* what runs after the store write: its failure is caught and the routing
\* goes on
AfterStore(storeFailed, topic) == EntryPoint(topic)

\* a handler without the method check
MethodAllowed_Any(method) == TRUE

\* req.method !== 'POST' is answered with 405
MethodAllowed(method) == method = "POST"

\* a request arrives: method check, store write, routing by topic, and the
\* entry point up to its first await (reading order.name of a null body
\* raises)
Receive(p, method, endpoint, header, body) ==
    LET topic == TopicOf(endpoint, header)
        order == body.order
        posted == MethodAllowed(method)
        storeFailed == StoreThrows(body)
        entry == IF posted THEN AfterStore(storeFailed, topic) ELSE ""
        how == CASE ~posted -> "rejected"
                 [] entry = "raise" -> "raised"
                 [] entry = "none" -> "returned"
                 [] body.null -> "raised"
                 [] entry = "handleProductUpdated" -> "returned"
                 [] OTHER -> ""
    IN /\ pc[p] \in {"idle", "done"}
       /\ delivered < MaxDeliveries
       /\ delivered' = delivered + 1
       /\ req' = [req EXCEPT ![p] = [method |-> method, topic |-> topic, null |-> body.null, order |-> order]]
       /\ loc' = [loc EXCEPT ![p] = [NoLoc EXCEPT !.existed = HasDealFor(crm, order.id)]]
       /\ sent' = [sent EXCEPT ![p] = NoSent]
       /\ storage' = IF posted /\ ~storeFailed THEN Append(storage, StoredEvent(body, delivered + 1)) ELSE storage
       /\ log' = [log EXCEPT ![p] = [NoLog EXCEPT !.entry = IF entry = "raise" THEN "" ELSE entry,
                                                  !.stored = IF ~posted THEN ""
                                                             ELSE IF storeFailed THEN "failed" ELSE "ok"]]
       /\ resp' = [resp EXCEPT ![p] = IF how = "" THEN 0 ELSE HandlerStatus(how)]
       /\ ended' = [ended EXCEPT ![p] = how]
       /\ pc' = [pc EXCEPT ![p] = CASE how # "" -> "done"
                                    [] entry = "handleOrderCreated" -> "c_list"
                                    [] OTHER -> "u_list"]
       /\ stores' = IF posted /\ ~storeFailed THEN stores + 1 ELSE stores
       /\ UNCHANGED <<crm, adds, okDone, mIn, mOut, got>>

\* a POST of an order to /api/webhook/shopify
ReceiveOrder(p, topic, order) == Receive(p, "POST", "shopify", topic, Body(order))

(***************************************************************************)
(* handleOrderCreated                                                      *)
(***************************************************************************)
\* the existence check: crm.deal.list with filter and limit 1, then find
CList(p, ord, out) ==
    /\ pc[p] = "c_list"
    /\ LET order == req[p].order
           existingDeals == Limit(ListResult(crm, JsString(order.id), ord, out), 1)
           hits == {i \in 1..Len(existingDeals) : ExactMatch(existingDeals[i], order.id)}
       IN IF out = "throw" THEN Raise(p) /\ UNCHANGED loc
          ELSE IF hits # {}
          THEN LET exactMatch == existingDeals[CHOOSE i \in hits : \A j \in hits : i <= j]
               IN /\ loc' = [loc EXCEPT ![p].dealId = exactMatch.ID, ![p].matches = <<exactMatch.ID>>]
                  /\ Return(p)
          ELSE Goto(p, "c_contact") /\ UNCHANGED loc
    /\ Logged(p, "list", out)
    /\ UNCHANGED <<crm, req, sent, delivered, adds, storage, mapVars>>

\* upsertBitrixContact inside try/catch (both create paths)
ContactId == 7

\* a contact upsert whose exception is not caught
Contact_Fatal(p, out) ==
    /\ pc[p] \in {"c_contact", "u_contact"}
    /\ loc' = [loc EXCEPT ![p].contactId = IF out = "id" THEN ContactId ELSE 0]
    /\ IF out = "throw" THEN Raise(p) ELSE Goto(p, IF pc[p] = "c_contact" THEN "c_add" ELSE "u_add")
    /\ Logged(p, "contact", out)
    /\ UNCHANGED <<crm, req, sent, delivered, adds, storage, mapVars>>

Contact(p, out) ==
    /\ pc[p] \in {"c_contact", "u_contact"}
    /\ loc' = [loc EXCEPT ![p].contactId = IF out = "id" THEN ContactId ELSE 0]
    /\ Goto(p, IF pc[p] = "c_contact" THEN "c_add" ELSE "u_add")
    /\ Logged(p, "contact", out)
    /\ UNCHANGED <<crm, req, sent, delivered, adds, storage, mapVars>>

\* crm.deal.productrows.set: the rows of deal id are replaced; an unknown
\* id changes nothing
SetRows(deals, id, rows) ==
    IF id \in 1..Len(deals) THEN [deals EXCEPT ![id] = WithRows(@, rows)] ELSE deals

\* a response without identifier taken for a created deal
ResultMissing_Never(out) == FALSE

\* !dealAddResp.result: the response of crm.deal.add carries no identifier
ResultMissing(out) == out = "empty"

\* crm.deal.add with the given fields, then the check of its result
AddDeal(p, fields, rowsLabel, out) ==
    LET productRows == MapOrder(req[p].order, NoCategory).productRows
    IN /\ sent' = [sent EXCEPT ![p].add = fields]
       /\ adds' = [adds EXCEPT ![OrderNo(req[p].order)] = @ + 1]
       /\ IF out = "throw" \/ ResultMissing(out)
          THEN /\ UNCHANGED <<crm, loc>>
               /\ Raise(p)
          ELSE /\ crm' = IF out = "ok" THEN Append(crm, NewDeal(crm, fields)) ELSE crm
               /\ loc' = [loc EXCEPT ![p].dealId = IF out = "ok" THEN Len(crm) + 1 ELSE 0]
               /\ IF Len(productRows) > 0 THEN Goto(p, rowsLabel) ELSE Return(p)
       /\ Logged(p, "add", out)
       /\ UNCHANGED <<req, delivered, storage, mapVars>>

\* the fields handleOrderCreated sends: the mapper's, with the join key set
CreatedFields(order, mcat, contactId) ==
    [issued |-> TRUE, CATEGORY_ID |-> MapOrder(order, mcat).dealFields.CATEGORY_ID,
     UF_SHOPIFY_ORDER_ID |-> Str(JsString(order.id)), CONTACT_ID |-> contactId]

CAdd(p, mcat, out) ==
    /\ pc[p] = "c_add"
    /\ AddDeal(p, CreatedFields(req[p].order, mcat, loc[p].contactId), "c_rows", out)

\* crm.deal.productrows.set inside try/catch
CRows(p, out) ==
    /\ pc[p] = "c_rows"
    /\ LET productRows == MapOrder(req[p].order, NoCategory).productRows
       IN /\ sent' = [sent EXCEPT ![p].rows = [issued |-> TRUE, id |-> loc[p].dealId, rows |-> productRows]]
          /\ crm' = IF out = "ok" THEN SetRows(crm, loc[p].dealId, productRows) ELSE crm
    /\ Return(p)
    /\ Logged(p, "rows", out)
    /\ UNCHANGED <<req, loc, delivered, adds, storage, mapVars>>

(***************************************************************************)
(* handleOrderUpdated                                                      *)
(***************************************************************************)
\* the returned records taken as they come
StrictMatches_Unfiltered(ds, orderId) == ds

\* allDeals.filter(...): the records that pass the strict match
StrictMatches(ds, orderId) == SelectSeq(ds, LAMBDA d : StrictMatch(d, orderId))

Ids(ds) == [i \in 1..Len(ds) |-> ds[i].ID]

\* the last returned match instead of the first
PickDeal_Last(deals) == deals[Len(deals)]

\* deal = deals[0], for one match and for several
PickDeal(deals) == deals[1]

\* after a query with matches: remember them and go on to the update
Matched(p, deals) ==
    /\ loc' = [loc EXCEPT ![p].matches = Ids(deals), ![p].deal = PickDeal(deals),
                          ![p].dealId = PickDeal(deals).ID, ![p].primary = Len(deals)]
    /\ Goto(p, "u_update")

\* the alternative search after every primary query
NeedsFallback_Always(deals) == TRUE

\* deals.length === 0 after the primary query
NeedsFallback(deals) == Len(deals) = 0

\* strategy 1: crm.deal.list filtered by the join key, errors caught
UList(p, ord, out) ==
    /\ pc[p] = "u_list"
    /\ LET order == req[p].order
           allDeals == IF out \in Failures THEN <<>> ELSE ListResult(crm, JsString(order.id), ord, out)
           deals == StrictMatches(allDeals, order.id)
       IN IF NeedsFallback(deals)
          THEN Goto(p, "u_fallback") /\ loc' = [loc EXCEPT ![p].primary = Len(deals)]
          ELSE Matched(p, deals)
    /\ Logged(p, "list", out)
    /\ UNCHANGED <<crm, req, sent, delivered, adds, storage, mapVars>>

\* the alternative search: the recent deals, filtered client-side
UFallback(p, ord, out) ==
    /\ pc[p] = "u_fallback"
    /\ LET order == req[p].order
           recentDeals == IF out \in Failures THEN <<>> ELSE FindRecent(crm, ord)
           foundDeals == StrictMatches(recentDeals, order.id)
       IN IF Len(foundDeals) = 0
          THEN /\ loc' = [loc EXCEPT ![p].fallback = TRUE, ![p].secondary = 0, ![p].fallbacks = @ + 1]
               /\ Goto(p, "u_contact")
          ELSE /\ loc' = [loc EXCEPT ![p].fallback = TRUE, ![p].matches = Ids(foundDeals),
                                     ![p].deal = PickDeal(foundDeals), ![p].dealId = PickDeal(foundDeals).ID,
                                     ![p].secondary = Len(foundDeals), ![p].fallbacks = @ + 1]
               /\ Goto(p, "u_update")
    /\ Logged(p, "fallback", out)
    /\ UNCHANGED <<crm, req, sent, delivered, adds, storage, mapVars>>

\* the fields of the zero-match branch: category and join key forced
NewDealFields(order, contactId) ==
    [issued |-> TRUE, CATEGORY_ID |-> CategoryFromTags(order.tags),
     UF_SHOPIFY_ORDER_ID |-> Str(JsString(order.id)), CONTACT_ID |-> contactId]

\* a create that looks the join key up once more and reuses a deal found
UAdd_Dedup(p, out) ==
    /\ pc[p] = "u_add"
    /\ IF HasDealFor(crm, req[p].order.id)
       THEN /\ loc' = [loc EXCEPT ![p].dealId = CHOOSE k \in DealsFor(crm, req[p].order.id) : TRUE]
            /\ Return(p)
            /\ UNCHANGED <<crm, req, sent, delivered, adds, storage, log, mapVars>>
       ELSE AddDeal(p, NewDealFields(req[p].order, loc[p].contactId), "u_newrows", out)

UAdd(p, out) ==
    /\ pc[p] = "u_add"
    /\ AddDeal(p, NewDealFields(req[p].order, loc[p].contactId), "u_newrows", out)

\* product rows of the new deal: not inside a try/catch
UNewRows(p, out) ==
    /\ pc[p] = "u_newrows"
    /\ LET productRows == MapOrder(req[p].order, NoCategory).productRows
       IN /\ sent' = [sent EXCEPT ![p].rows = [issued |-> TRUE, id |-> loc[p].dealId, rows |-> productRows]]
          /\ crm' = IF out = "ok" THEN SetRows(crm, loc[p].dealId, productRows) ELSE crm
    /\ IF out = "ok" THEN Return(p) ELSE Raise(p)
    /\ Logged(p, "rows", out)
    /\ UNCHANGED <<req, loc, delivered, adds, storage, mapVars>>

\* Number(deal.CATEGORY_ID) || 2
CurrentCategory(deal) == IF deal.CATEGORY_ID = 0 THEN 2 ELSE deal.CATEGORY_ID

\* the deal's stored category instead of the recomputed one
StageCategory_Current(order, deal) == CurrentCategory(deal)

\* category whose stage space the stage policy is asked for
StageCategory(order, deal) == CategoryFromTags(order.tags)

\* no exception for partial refunds
KeepStage_Never(order) == FALSE

\* whether the update leaves STAGE_ID out
KeepStage(order) == StatusLower(order.financial_status) = "partially_refunded"

\* a blind default in place of the deal's stage
CurrentStage_Initial(deal) == StageId(CurrentCategory(deal), "NEW")

\* currentStageId = deal.STAGE_ID
CurrentStage(deal) == deal.STAGE_ID

\* the fields object of the update
UpdateFields(order, deal) ==
    LET mappedFields == MapOrder(order, NoCategory).dealFields
        currentCategoryId == CurrentCategory(deal)
        categoryId == CategoryFromTags(order.tags)
        currentStageId == CurrentStage(deal)
        stageId == financialStatusToStageId(order.financial_status, StageCategory(order, deal), currentStageId)
    IN [OPPORTUNITY |-> mappedFields.OPPORTUNITY,
        UF_SHOPIFY_TOTAL_DISCOUNT |-> OrZero(mappedFields.UF_SHOPIFY_TOTAL_DISCOUNT),
        UF_SHOPIFY_TOTAL_TAX |-> OrZero(mappedFields.UF_SHOPIFY_TOTAL_TAX),
        UF_SHOPIFY_SHIPPING_PRICE |-> OrZero(mappedFields.UF_SHOPIFY_SHIPPING_PRICE),
        CATEGORY_ID |-> IF categoryId # currentCategoryId THEN categoryId ELSE NoCategory,
        STAGE_ID |-> IF KeepStage(order) THEN Absent ELSE stageId,
        UF_CRM_1739183959976 |-> financialStatusToPaymentStatus(order.financial_status)]

\* crm.deal.update on the picked deal
UUpdate(p, out) ==
    /\ pc[p] = "u_update"
    /\ LET fields == UpdateFields(req[p].order, loc[p].deal)
       IN /\ sent' = [sent EXCEPT ![p].upd = [issued |-> TRUE, id |-> loc[p].dealId, fields |-> fields]]
          /\ IF out = "ok"
             THEN /\ crm' = [crm EXCEPT ![loc[p].dealId] = UpdatedDeal(@, fields)]
                  /\ Goto(p, "u_rows")
             ELSE /\ UNCHANGED crm
                  /\ Raise(p)
    /\ Logged(p, "upd", out)
    /\ UNCHANGED <<req, loc, delivered, adds, storage, mapVars>>

\* the guard of the create paths applied to the update path
SetsRowsOnUpdate_NonEmpty(productRows) == Len(productRows) > 0

\* whether the update path calls productrows.set for these rows
SetsRowsOnUpdate(productRows) == TRUE

\* step 4: full replacement of the product rows, inside try/catch
URows(p, out) ==
    /\ pc[p] = "u_rows"
    /\ LET productRows == MapOrder(req[p].order, NoCategory).productRows
       IN IF SetsRowsOnUpdate(productRows)
          THEN /\ sent' = [sent EXCEPT ![p].rows = [issued |-> TRUE, id |-> loc[p].dealId, rows |-> productRows]]
               /\ crm' = IF out = "ok" THEN SetRows(crm, loc[p].dealId, productRows) ELSE crm
          ELSE UNCHANGED <<sent, crm>>
    /\ Return(p)
    /\ Logged(p, "rows", out)
    /\ UNCHANGED <<req, loc, delivered, adds, storage, mapVars>>

(***************************************************************************)
(* Specifications                                                          *)
(***************************************************************************)
SortOrders == {"desc", "asc"}

\* the orders of the concurrent specification: they differ in identifier
\* and financial status
ConcurrentOrders ==
    {o \in Orders : o.tags = NoTags /\ o.financial_status \in {"paid", "refunded"}
                    /\ o.totals.total_tax = Undefined /\ o.line_items # <<>>}

\* concurrent deliveries against a CRM that may ignore the requested sort;
\* every CRM call succeeds
Next ==
    \E p \in Procs :
        \/ \E topic \in OrderTopics, order \in ConcurrentOrders : ReceiveOrder(p, topic, order)
        \/ \E ord \in SortOrders : CList(p, ord, "ok")
        \/ Contact(p, "id")
        \/ \E mcat \in MapperCategories : CAdd(p, mcat, "ok")
        \/ CRows(p, "ok")
        \/ \E ord \in SortOrders : UList(p, ord, "ok")
        \/ \E ord \in SortOrders : UFallback(p, ord, "ok")
        \/ UAdd(p, "ok")
        \/ UNewRows(p, "ok")
        \/ UUpdate(p, "ok")
        \/ URows(p, "ok")

Spec == Init /\ [][Next]_vars

\* one delivery at a time, every CRM call succeeds, the CRM filters and
\* sorts as asked
NextSeq ==
    \E p \in {1} :
        \/ \E topic \in OrderTopics, order \in Orders : ReceiveOrder(p, topic, order)
        \/ CList(p, "desc", "ok")
        \/ Contact(p, "id")
        \/ \E mcat \in MapperCategories : CAdd(p, mcat, "ok")
        \/ CRows(p, "ok")
        \/ UList(p, "desc", "ok")
        \/ UFallback(p, "desc", "ok")
        \/ UAdd(p, "ok")
        \/ UNewRows(p, "ok")
        \/ UUpdate(p, "ok")
        \/ URows(p, "ok")

SpecSeq == Init /\ [][NextSeq]_vars

\* orders/create deliveries only, one at a time, every CRM call succeeds
NextCreate ==
    \E p \in {1} :
        \/ \E order \in Orders : ReceiveOrder(p, "orders/create", order)
        \/ CList(p, "desc", "ok")
        \/ Contact(p, "id")
        \/ \E mcat \in MapperCategories : CAdd(p, mcat, "ok")
        \/ CRows(p, "ok")

SpecCreate == Init /\ [][NextCreate]_vars

\* the orders of the specifications with failing calls: they differ in
\* identifier and in having line items
FailOrders ==
    {o \in Orders : o.tags = NoTags /\ o.financial_status = "paid"
                    /\ o.totals.total_tax = Undefined}

CallOutcomes == {"ok", "throw"}
AddOutcomes == {"ok", "throw", "empty"}
ContactOutcomes == {"id", "null", "throw"}

\* one delivery at a time; every CRM call may fail
NextFail ==
    \E p \in {1} :
        \/ \E topic \in OrderTopics, order \in FailOrders : ReceiveOrder(p, topic, order)
        \/ \E out \in CallOutcomes : CList(p, "desc", out)
        \/ \E out \in ContactOutcomes : Contact(p, out)
        \/ \E out \in AddOutcomes : CAdd(p, NoCategory, out)
        \/ \E out \in CallOutcomes : CRows(p, out)
        \/ \E out \in CallOutcomes : UList(p, "desc", out)
        \/ \E out \in CallOutcomes : UFallback(p, "desc", out)
        \/ \E out \in AddOutcomes : UAdd(p, out)
        \/ \E out \in CallOutcomes : UNewRows(p, out)
        \/ \E out \in CallOutcomes : UUpdate(p, out)
        \/ \E out \in CallOutcomes : URows(p, out)

SpecFail == Init /\ [][NextFail]_vars

\* requests of the dispatcher: methods, endpoints, topic headers ("" is a
\* missing header) and bodies (an order, an object without id, null)
Methods == {"POST", "GET"}
Endpoints == {"shopify", "refund/crt"}
TopicHeaders == {"orders/create", "orders/updated", "products/update", "refunds/create", "app/uninstalled", ""}
NoIdOrder == [NoOrder EXCEPT !.financial_status = "paid"]
HttpOrders ==
    {o \in FailOrders : o.id = Num(100) /\ o.line_items # <<>>}
Bodies == {NullBody, Body(NoIdOrder)} \cup {Body(o) : o \in HttpOrders}

\* one request at a time, of any method, topic and body; the calls that an
\* entry point does not catch may fail
NextHttp ==
    \E p \in {1} :
        \/ \E method \in Methods, endpoint \in Endpoints, header \in TopicHeaders, body \in Bodies :
              Receive(p, method, endpoint, header, body)
        \/ \E out \in CallOutcomes : CList(p, "desc", out)
        \/ Contact(p, "id")
        \/ \E out \in AddOutcomes : CAdd(p, NoCategory, out)
        \/ CRows(p, "ok")
        \/ UList(p, "desc", "ok")
        \/ UFallback(p, "desc", "ok")
        \/ \E out \in AddOutcomes : UAdd(p, out)
        \/ \E out \in CallOutcomes : UNewRows(p, out)
        \/ \E out \in CallOutcomes : UUpdate(p, out)
        \/ URows(p, "ok")

SpecHttp == Init /\ [][NextHttp]_vars

\* whether a call of delivery p may end with outcome out when each delivery
\* suffers at most one failing call
SingleFault(p, out) == out \notin Failures \/ log[p].faults = 0

\* one delivery at a time, redelivered at will; at most one CRM call of a
\* delivery fails
NextRetry ==
    \E p \in {1} :
        \/ \E topic \in OrderTopics, order \in FailOrders : ReceiveOrder(p, topic, order)
        \/ \E out \in CallOutcomes : SingleFault(p, out) /\ CList(p, "desc", out)
        \/ \E out \in ContactOutcomes : SingleFault(p, out) /\ Contact(p, out)
        \/ \E out \in AddOutcomes : SingleFault(p, out) /\ CAdd(p, NoCategory, out)
        \/ \E out \in CallOutcomes : SingleFault(p, out) /\ CRows(p, out)
        \/ \E out \in CallOutcomes : SingleFault(p, out) /\ UList(p, "desc", out)
        \/ \E out \in CallOutcomes : SingleFault(p, out) /\ UFallback(p, "desc", out)
        \/ \E out \in AddOutcomes : SingleFault(p, out) /\ UAdd(p, out)
        \/ \E out \in CallOutcomes : SingleFault(p, out) /\ UNewRows(p, out)
        \/ \E out \in CallOutcomes : SingleFault(p, out) /\ UUpdate(p, out)
        \/ \E out \in CallOutcomes : SingleFault(p, out) /\ URows(p, out)

SpecRetry == Init /\ [][NextRetry]_vars

\* join keys of deals that did not come from this handler: none, another
\* order's, and keys of order 1 stored with a blank, with a leading zero or
\* as a number
ForeignKeys ==
    {Null, Str(<<"2">>), Str(<<"1", " ">>), Str(<<"0", "1">>), Num(100), Str(<<"1", "x">>)}

ForeignDeal(n, key) ==
    [ID |-> n, UF_SHOPIFY_ORDER_ID |-> key, CATEGORY_ID |-> CATEGORY_STOCK,
     STAGE_ID |-> StageId(CATEGORY_STOCK, "NEW"), DATE_CREATE |-> n, rows |-> <<>>]

ForeignCrms ==
    UNION {{[n \in 1..k |-> ForeignDeal(n, keys[n])] : keys \in [1..k -> ForeignKeys]} : k \in 0..MaxForeign}


\* a CRM that holds foreign deals and may ignore the filter of a list call
InitStrict == crm \in ForeignCrms /\ IdleInit /\ mIn = NoMapIn /\ mOut = Pending

NextStrict ==
    \E p \in {1} :
        \/ \E topic \in OrderTopics, order \in {o \in FailOrders : o.line_items # <<>>} : ReceiveOrder(p, topic, order)
        \/ \E out \in {"ok", "loose"} : CList(p, "desc", out)
        \/ Contact(p, "id")
        \/ CAdd(p, NoCategory, "ok")
        \/ CRows(p, "ok")
        \/ \E out \in {"ok", "loose"} : UList(p, "desc", out)
        \/ UFallback(p, "desc", "ok")
        \/ UAdd(p, "ok")
        \/ UNewRows(p, "ok")
        \/ UUpdate(p, "ok")
        \/ URows(p, "ok")

SpecStrict == InitStrict /\ [][NextStrict]_vars

\* financial statuses of the stage specification: two the policy knows, one
\* it does not know, and a missing one
StageStatuses == {"paid", "partially_refunded", "disputed", Absent}
StageOrders ==
    [id : {Num(100 * i) : i \in OrderIds}, tags : TagInputs, financial_status : StageStatuses,
     line_items : {<<>>},
     totals : {t \in TotalsInputs : t.total_tax = Undefined}]

\* orders/updated deliveries one at a time, every CRM call succeeds
NextStage ==
    \E p \in {1} :
        \/ \E order \in StageOrders : ReceiveOrder(p, "orders/updated", order)
        \/ UList(p, "desc", "ok")
        \/ UFallback(p, "desc", "ok")
        \/ Contact(p, "id")
        \/ UAdd(p, "ok")
        \/ UUpdate(p, "ok")
        \/ URows(p, "ok")

SpecStage == Init /\ [][NextStage]_vars

(***************************************************************************)
(* transformToBitrix applied to bounded orders                             *)
(***************************************************************************)
Alphabet == {"0", "5", ".", "x", " "}
SeqsUpTo(S, n) == UNION {[1..k -> S] : k \in 0..n}

AmountInputs == {Undefined, Str(<<"5">>), Str(<<"0">>), Str(<<"x">>)}
DiscountCodesInputs == {NoCodes, NotArrayCodes} \cup {Codes(a) : a \in SeqsUpTo(AmountInputs, MaxCodes)}
TotalDiscountsInputs == {Undefined, Null, Num(0), Num(250)} \cup {Str(c) : c \in SeqsUpTo(Alphabet, MaxStrLen)}

MapInit ==
    /\ RecInit
    /\ mIn \in [discount_codes : DiscountCodesInputs, total_discounts : TotalDiscountsInputs]
    /\ mOut = Pending

Transform ==
    /\ mOut = Pending
    /\ mOut' = TotalDiscount(mIn.discount_codes, mIn.total_discounts)
    /\ UNCHANGED <<mIn, got, stores, recVars>>

SpecMap == MapInit /\ [][Transform]_vars

(***************************************************************************)
(* transformToBitrix: the customer name                                    *)
(***************************************************************************)
\* getValue(value): undefined, null and '' give null
GetValue(value) == IF value = Undefined \/ value = Null \/ value = Str(<<>>) THEN Null ELSE value

\* getValue(x) || '' inside the template string
OrEmpty(v) == IF Truthy(v) THEN v.s ELSE <<>>

\* `${first} ${last}`.trim() || null
FullName(person) ==
    LET joined == OrEmpty(GetValue(person.first_name)) \o <<" ">> \o OrEmpty(GetValue(person.last_name))
        trimmed == Trim(joined)
    IN IF trimmed = <<>> THEN Null ELSE Str(trimmed)

\* an absent customer or billing_address
NoPerson == [present |-> FALSE, first_name |-> Undefined, last_name |-> Undefined]

\* customerName: the customer object when there is one, else the billing
\* address when there is one, else null
CustomerName(customer, billing_address) ==
    IF customer.present THEN FullName(customer)
    ELSE IF billing_address.present THEN FullName(billing_address)
    ELSE Null

NameInputs == {Undefined} \cup {Str(c) : c \in SeqsUpTo({"A", " "}, MaxNameLen)}
PersonInputs == {NoPerson} \cup [present : {TRUE}, first_name : NameInputs, last_name : NameInputs]

NameInit ==
    /\ RecInit
    /\ mIn \in [customer : PersonInputs, billing_address : PersonInputs]
    /\ mOut = Pending

TransformName ==
    /\ mOut = Pending
    /\ mOut' = CustomerName(mIn.customer, mIn.billing_address)
    /\ UNCHANGED <<mIn, got, stores, recVars>>

SpecName == NameInit /\ [][TransformName]_vars

(***************************************************************************)
(* The event store: getAllEvents, clearEvents                              *)
(***************************************************************************)
\* the loop of getAllEvents from index i down to the first event: an event
\* whose key (orderId || id) was not seen goes to the front of the result
RECURSIVE UniqueEvents(_, _, _, _)
UniqueEvents(st, i, seen, uniqueEvents) ==
    IF i = 0 THEN uniqueEvents
    ELSE LET event == st[i]
             orderId == IF Truthy(event.orderId) THEN event.orderId ELSE event.id
         IN IF orderId \in seen
            THEN UniqueEvents(st, i - 1, seen, uniqueEvents)
            ELSE UniqueEvents(st, i - 1, seen \cup {orderId}, <<event>> \o uniqueEvents)

\* a read that returns the store as it is
GetAllEvents_Raw(st) == st

GetAllEvents(st) == UniqueEvents(st, Len(st), {}, <<>>)

\* getEventsCount: storage.length
GetEventsCount(st) == Len(st)

\* a caller reads the events
CallGetAllEvents ==
    /\ got' = GetAllEvents(storage)
    /\ UNCHANGED <<recVars, mIn, mOut, stores>>

\* clearEvents: storage.length = 0
CallClearEvents ==
    /\ storage # <<>>
    /\ storage' = <<>>
    /\ stores' = 0
    /\ UNCHANGED <<crm, pc, req, loc, sent, resp, delivered, adds, okDone, ended, log, mIn, mOut, got>>

\* events arrive through the handler on a topic without entry point; the
\* store is read and cleared in between
NextStore ==
    \/ \E body \in {NullBody, Body(NoIdOrder)} \cup {Body(o) : o \in {o \in FailOrders : o.line_items = <<>>}} :
          Receive(1, "POST", "refund/crt", "", body)
    \/ CallGetAllEvents
    \/ CallClearEvents

SpecStore == Init /\ [][NextStore]_vars

(***************************************************************************)
(* Properties                                                              *)
(***************************************************************************)
DealCount(i) == Cardinality(DealsFor(crm, Num(100 * i)))

IsUpdate(p) == req[p].topic = "orders/updated" /\ sent[p].upd.issued

\* C1: under sequential orders/create deliveries whose calls succeed, once
\* a delivery for an order has completed, exactly one crm.deal.add has been
\* issued for that order (by the first delivery, later ones issue none) and
\* the CRM holds exactly one deal with that join key.
C1_IdempotentCreate ==
    \A i \in OrderIds : okDone[i] >= 1 => adds[i] = 1 /\ DealCount(i) = 1

C1_Witness ==
    /\ pc[1] = "done" /\ resp[1] = 200 /\ req[1].topic = "orders/create"
    /\ okDone[1] = 2 /\ adds[1] = 1 /\ DealCount(1) = 1
    /\ ~sent[1].add.issued

C3_FullRowReplacement ==
    \A p \in Procs :
        (pc[p] = "done" /\ IsUpdate(p) /\ req[p].order.line_items = <<>>)
            => /\ sent[p].rows = [issued |-> TRUE, id |-> loc[p].dealId, rows |-> <<>>]
               /\ crm[loc[p].dealId].rows = <<>>

C3_Witness ==
    /\ pc[1] = "done" /\ IsUpdate(1) /\ req[1].order.line_items = <<>>
    /\ Len(loc[1].deal.rows) = 2
    /\ crm[loc[1].dealId].rows = <<>>

\* C4: the field update of an orders/updated delivery with financial status
\* partially_refunded carries no stage, so the deal keeps the stage it had,
\* and carries opportunity amount, discount, tax, shipping and the
\* payment-status code.
C4_PartialRefundKeepsStage ==
    \A p \in Procs :
        (IsUpdate(p) /\ req[p].order.financial_status = "partially_refunded")
            => LET fields == sent[p].upd.fields
               IN /\ fields.STAGE_ID = Absent
                  /\ crm[loc[p].dealId].STAGE_ID = loc[p].deal.STAGE_ID
                  /\ fields.OPPORTUNITY # Undefined
                  /\ fields.UF_SHOPIFY_TOTAL_DISCOUNT # Undefined
                  /\ fields.UF_SHOPIFY_TOTAL_TAX # Undefined
                  /\ fields.UF_SHOPIFY_SHIPPING_PRICE # Undefined
                  /\ fields.UF_CRM_1739183959976 = financialStatusToPaymentStatus("partially_refunded")

C4_Witness ==
    /\ pc[1] = "done" /\ IsUpdate(1) /\ req[1].order.financial_status = "partially_refunded"
    /\ loc[1].deal.STAGE_ID = "C2:LOSE" /\ crm[loc[1].dealId].STAGE_ID = "C2:LOSE"
    /\ sent[1].upd.fields.OPPORTUNITY = Num(500)

\* C5: the field update of an orders/updated delivery with financial status
\* refunded carries the lost stage of the category resolved from the
\* order's tags, whatever stage the deal is in.
C5_FullRefundMovesToLost ==
    \A p \in Procs :
        (IsUpdate(p) /\ req[p].order.financial_status = "refunded")
            => sent[p].upd.fields.STAGE_ID = StageId(CategoryFromTags(req[p].order.tags), "LOSE")

C5_Witness ==
    /\ IsUpdate(1) /\ req[1].order.financial_status = "refunded"
    /\ loc[1].deal.STAGE_ID = "C2:WON" /\ hasPreorderTag(req[1].order.tags)
    /\ sent[1].upd.fields.STAGE_ID = "C8:LOSE"

\* C6 as stated: every crm.deal.add carries the category computed from the
\* order's tags, on both create paths.
C6_CategoryForcedOnCreate ==
    \A p \in Procs :
        sent[p].add.issued => sent[p].add.CATEGORY_ID = CategoryFromTags(req[p].order.tags)

Latest(matches) == CHOOSE id \in {matches[i] : i \in 1..Len(matches)} :
                      \A j \in 1..Len(matches) : crm[matches[j]].DATE_CREATE <= crm[id].DATE_CREATE

SortedDesc(matches) ==
    \A i, j \in 1..Len(matches) : i < j => crm[matches[i]].DATE_CREATE > crm[matches[j]].DATE_CREATE

\* C7 as stated: with several matches the update goes to the match created
\* last, in whatever order the CRM returned the records.
C7_UpdatesLatest ==
    \A p \in Procs :
        (IsUpdate(p) /\ Len(loc[p].matches) > 1) => sent[p].upd.id = Latest(loc[p].matches)

\* C7 amended: with several matches the field update and the product rows
\* go to the first match in the order the CRM returned the records, which
\* is the match created last when the CRM returned them sorted by creation
\* timestamp descending as requested; no create is issued and no other
\* match is mutated.
C7_UpdatesFirstReturned ==
    \A p \in Procs :
        (IsUpdate(p) /\ Len(loc[p].matches) > 1)
            => /\ sent[p].upd.id = loc[p].matches[1]
               /\ SortedDesc(loc[p].matches) => sent[p].upd.id = Latest(loc[p].matches)
               /\ ~sent[p].add.issued
               /\ sent[p].rows.issued => sent[p].rows.id = loc[p].matches[1]
               /\ pc[p] = "done" => sent[p].rows.issued

C7_Witness ==
    \E p \in Procs :
        /\ pc[p] = "done" /\ IsUpdate(p) /\ Len(loc[p].matches) = 2
        /\ SortedDesc(loc[p].matches)
        /\ sent[p].upd.id = 2 /\ sent[p].rows.id = 2

\* C9: under sequential deliveries of orders/create and orders/updated
\* whose calls succeed, the CRM holds at most one deal per order identifier
\* and exactly one for every order with a completed delivery.
C9_OneDealPerOrder ==
    \A i \in OrderIds : DealCount(i) <= 1 /\ (okDone[i] >= 1 => DealCount(i) = 1)

C9_Witness ==
    /\ okDone[1] = 2 /\ okDone[2] = 1 /\ DealCount(1) = 1 /\ DealCount(2) = 1
    /\ pc[1] = "done" /\ req[1].topic = "orders/updated"

\* C10: no step between the lookups and the create looks the join key up
\* again: a delivery that has decided to create adds a deal with its join
\* key whatever the CRM holds by then.
C10_CreateAfterDecision ==
    [][\A p \in Procs :
          (pc[p] = "u_add" /\ pc'[p] # "u_add")
              => /\ Len(crm') = Len(crm) + 1
                 /\ crm'[Len(crm')].UF_SHOPIFY_ORDER_ID = Str(JsString(req[p].order.id))]_vars

\* two concurrent orders/updated deliveries for one order both looked up
\* (primary and fallback) before either created, and both created
C10_Witness ==
    \E p, q \in Procs :
        /\ p # q /\ req[p].order.id = req[q].order.id
        /\ req[p].topic = "orders/updated" /\ req[q].topic = "orders/updated"
        /\ pc[p] = "done" /\ pc[q] = "done"
        /\ loc[p].fallback /\ loc[q].fallback /\ ~loc[p].existed /\ ~loc[q].existed
        /\ sent[p].add.issued /\ sent[q].add.issued
        /\ loc[p].dealId # loc[q].dealId
        /\ DealsFor(crm, req[p].order.id) = {loc[p].dealId, loc[q].dealId}

\* C8: with an empty or absent discount-code list and a positive aggregate
\* discount field, the discount total is the parsed aggregate field.
C8_DiscountFallback ==
    (/\ mOut # Pending
     /\ mIn.discount_codes \in {NoCodes, Codes(<<>>)}
     /\ ParseNumber(mIn.total_discounts).t = "num"
     /\ ParseNumber(mIn.total_discounts).n > 0)
        => mOut = ParseNumber(mIn.total_discounts) /\ mOut # Null /\ mOut # Num(0)

C8_Witness ==
    /\ mIn.discount_codes = Codes(<<>>)
    /\ mIn.total_discounts = Str(<<"5", ".", "5">>)
    /\ mOut = Num(550)

\* C11: a finished delivery whose lookup query (the filtered list or the
\* alternative search) raised has got the server-error response and has
\* neither created nor updated a deal
C11_LookupFailureIsHard ==
    \A p \in Procs :
        (pc[p] = "done" /\ (log[p].list = "throw" \/ log[p].fallback = "throw")) =>
            /\ resp[p] = 500
            /\ log[p].add # "ok" /\ log[p].upd # "ok"

\* C12: a delivery whose set-product-rows call failed ends with the success
\* response, on every path
C12_RowFailureIsolated ==
    \A p \in Procs :
        log[p].rows = "throw" => (pc[p] = "done" /\ resp[p] = 200 /\ ended[p] = "returned")

\* C13: after the contact upsert, whatever its outcome, the delivery goes on
\* to the create call; the create call carries the contact identifier when
\* the upsert returned one and no contact linkage otherwise
C13_ContactNeverFatal ==
    \A p \in Procs :
        /\ log[p].contact # "" => (pc[p] \in {"c_add", "u_add"} \/ sent[p].add.issued)
        /\ sent[p].add.issued =>
               sent[p].add.CONTACT_ID = (IF log[p].contact = "id" THEN ContactId ELSE 0)

C13_Witness ==
    \E p \in Procs :
        /\ log[p].contact = "throw" /\ sent[p].add.issued /\ sent[p].add.CONTACT_ID = 0
        /\ log[p].add = "ok" /\ req[p].topic = "orders/updated"

\* C14: a delivery whose create response carried no identifier has ended
\* with the server-error response, raised by the entry point, and has
\* issued no set-product-rows call
C14_CreateWithoutIdIsHard ==
    \A p \in Procs :
        log[p].add = "empty" =>
            /\ pc[p] = "done" /\ resp[p] = 500 /\ ended[p] = "raised"
            /\ ~sent[p].rows.issued

C14_Witness ==
    \E p \in Procs :
        /\ log[p].add = "empty" /\ resp[p] = 500 /\ req[p].order.line_items # <<>>
        /\ req[p].topic = "orders/create"
\* the CRM calls a delivery has made so far
CallNames == {"list", "fallback", "contact", "add", "upd", "rows"}
Calls(p) == {c \in CallNames : log[p][c] # ""}

\* C15: a request whose method is not POST has ended at once with 405,
\* whatever its topic: no CRM call, no store write, no entry point
C15_WrongMethodRejected ==
    \A p \in Procs :
        (req[p].method # "" /\ req[p].method # "POST") =>
            /\ pc[p] = "done" /\ resp[p] = 405 /\ ended[p] = "rejected"
            /\ Calls(p) = {} /\ ~sent[p].add.issued /\ ~sent[p].upd.issued /\ ~sent[p].rows.issued
            /\ log[p].stored = "" /\ log[p].entry = ""
            /\ Len(storage) < delivered

C15_Witness ==
    \E p \in Procs :
        /\ req[p].method = "GET" /\ req[p].topic = "orders/create" /\ ~req[p].null
        /\ req[p].order \in HttpOrders /\ resp[p] = 405 /\ storage # <<>>

\* C16: a POST on an order topic whose body is null or has no identifier
\* makes no CRM call, and no deal carries the join key of a missing
\* identifier
MalformedBody(r) == r.null \/ r.order.id = Undefined
C16_MalformedBodyRejected ==
    /\ \A p \in Procs :
           (req[p].method = "POST" /\ req[p].topic \in OrderTopics /\ MalformedBody(req[p])) =>
               Calls(p) = {}
    /\ ~HasDealFor(crm, Undefined)

\* C17: a finished POST whose topic is not an order topic has got the
\* success response and has made no CRM call; a POST that came through
\* refund/crt is handled as refunds/create
C17_IgnoredTopics ==
    \A p \in Procs :
        (req[p].method = "POST" /\ req[p].topic \notin OrderTopics) =>
            /\ pc[p] = "done" /\ resp[p] = 200
            /\ Calls(p) = {}

\* C18: a POST in flight has no response; a finished POST has exactly one
\* of the two responses: 200 iff the routed entry point returned, 500 iff
\* it raised
C18_ResponseContract ==
    \A p \in Procs :
        req[p].method = "POST" =>
            /\ pc[p] # "done" => (resp[p] = 0 /\ ended[p] = "")
            /\ pc[p] = "done" =>
                   /\ resp[p] \in {200, 500}
                   /\ ended[p] \in {"returned", "raised"}
                   /\ resp[p] = 200 <=> ended[p] = "returned"
                   /\ resp[p] = 500 <=> ended[p] = "raised"

C18_Witness ==
    \E p \in Procs :
        /\ req[p].method = "POST" /\ pc[p] = "done" /\ resp[p] = 500 /\ ended[p] = "raised"
        /\ log[p].rows = "throw"

\* C19: every POST attempts the store write before its entry point runs and
\* before its first CRM call; when the write fails, the entry point of the
\* topic still runs and the response is the one of that entry point
C19_StoreFirstNonBlocking ==
    \A p \in Procs :
        req[p].method = "POST" =>
            /\ log[p].stored \in {"ok", "failed"}
            /\ log[p].stored = "failed" <=> req[p].null
            /\ log[p].entry = EntryPoint(req[p].topic)
            /\ (log[p].stored = "failed" /\ log[p].entry = "none") =>
                   (pc[p] = "done" /\ resp[p] = 200 /\ ended[p] = "returned")
            /\ (log[p].stored = "failed" /\ log[p].entry # "none") =>
                   (pc[p] = "done" /\ resp[p] = 500 /\ ended[p] = "raised" /\ Calls(p) = {})

C19_Witness ==
    \E p \in Procs :
        /\ req[p].method = "POST" /\ log[p].stored = "failed" /\ log[p].entry = "none"
        /\ resp[p] = 200 /\ Len(storage) < delivered
\* C20: with at most one failing call per delivery and deliveries one after
\* the other, no order ever has a second deal; a delivery that ends with the
\* success response leaves exactly one deal for its order, and when a deal
\* was there on arrival (a failed delivery created it) it reuses that deal
\* and issues no create
C20_RetrySafety ==
    /\ \A i \in OrderIds : DealCount(i) <= 1
    /\ \A p \in Procs :
           (pc[p] = "done" /\ resp[p] = 200 /\ req[p].topic \in OrderTopics) =>
               /\ DealCount(OrderNo(req[p].order)) = 1
               /\ loc[p].existed =>
                      (~sent[p].add.issued /\ loc[p].dealId \in DealsFor(crm, req[p].order.id))

\* the second delivery of order 1 succeeds on the deal that the first one,
\* which ended with the server-error response, had created
C20_Witness ==
    \E p \in Procs :
        /\ delivered = 2 /\ pc[p] = "done" /\ resp[p] = 200
        /\ OrderNo(req[p].order) = 1 /\ okDone[1] = 1 /\ adds[1] = 1
        /\ loc[p].existed /\ ~sent[p].add.issued /\ DealCount(1) = 1
        /\ log[p].faults = 0
\* C21: a finished orders/updated delivery that issued the field update has
\* also issued the set-product-rows call with the rows of the current
\* order, whether the field update succeeded or failed
C21_RowsAfterAnyUpdateOutcome ==
    \A p \in Procs :
        (pc[p] = "done" /\ IsUpdate(p)) =>
            /\ sent[p].rows.issued /\ sent[p].rows.id = sent[p].upd.id
            /\ sent[p].rows.rows = MapOrder(req[p].order, NoCategory).productRows

\* C22: an orders/create delivery that issued a create has issued the
\* unfiltered recent-window query before it
C22_CreateUsesLookupProtocol ==
    \A p \in Procs :
        (req[p].topic = "orders/create" /\ sent[p].add.issued) =>
            log[p].fallback # ""
\* the three comparisons of a stored join key with an order identifier
KeyAgrees(key, id) ==
    \/ JsString(key) = JsString(id)
    \/ JsNumber(key).t = "num" /\ JsNumber(key) = JsNumber(id)
    \/ Trim(JsString(key)) = Trim(JsString(id))

\* C23: whatever the CRM holds and returns, a step of an orders/updated
\* delivery changes a deal only if the deal's join key is string-equal,
\* numeric-equal or trimmed-string-equal to the order identifier, and the
\* update and set-product-rows calls name such a deal
C23_OnlyMatchingDealMutated ==
    [][\A p \in Procs :
          (req[p].topic = "orders/updated" /\ pc[p] \notin {"idle", "done"}) =>
              /\ \A k \in 1..Len(crm) :
                     crm'[k] # crm[k] => KeyAgrees(crm[k].UF_SHOPIFY_ORDER_ID, req[p].order.id)
              /\ (sent'[p].upd.issued /\ ~sent[p].upd.issued) =>
                     KeyAgrees(crm[sent'[p].upd.id].UF_SHOPIFY_ORDER_ID, req[p].order.id)
              /\ (sent'[p].rows.issued /\ ~sent[p].rows.issued) =>
                     KeyAgrees(crm'[sent'[p].rows.id].UF_SHOPIFY_ORDER_ID, req[p].order.id)]_vars

\* a deal stored with a blank after the key was updated although the CRM
\* had returned all its deals, another order's among them
C23_Witness ==
    \E p \in Procs :
        /\ IsUpdate(p) /\ pc[p] = "done" /\ log[p].list = "loose" /\ Len(crm) = 2
        /\ crm[sent[p].upd.id].UF_SHOPIFY_ORDER_ID = Str(<<"1", " ">>)
        /\ \E k \in 1..Len(crm) : ~KeyAgrees(crm[k].UF_SHOPIFY_ORDER_ID, req[p].order.id)
        /\ sent[p].rows.issued /\ crm[sent[p].upd.id].rows # <<>>
\* C24: on an orders/updated delivery the unfiltered query is issued iff the
\* primary query gave no strict match, and at most once; a create is issued
\* only after both queries gave none, a delivery with none in both goes to
\* the create, and a delivery that creates issues no update
C24_FallbackDiscipline ==
    \A p \in Procs :
        (req[p].topic = "orders/updated" /\ loc[p].primary >= 0) =>
            /\ (pc[p] = "u_fallback" \/ loc[p].fallbacks > 0) <=> loc[p].primary = 0
            /\ loc[p].fallbacks <= 1
            /\ (loc[p].fallbacks = 1) <=> (log[p].fallback # "")
            /\ sent[p].add.issued => (loc[p].primary = 0 /\ loc[p].secondary = 0 /\ ~sent[p].upd.issued)
            /\ (loc[p].primary = 0 /\ loc[p].secondary = 0) =>
                   (pc[p] \in {"u_contact", "u_add"} \/ sent[p].add.issued)
            /\ (loc[p].primary > 0 \/ loc[p].secondary > 0) => ~sent[p].add.issued

\* the filtered query missed a deal stored with a blank after the key, the
\* unfiltered one found it, and the delivery updated it without creating
C24_Witness ==
    \E p \in Procs :
        /\ req[p].topic = "orders/updated" /\ pc[p] = "done"
        /\ log[p].list = "ok" /\ loc[p].primary = 0 /\ loc[p].secondary = 1 /\ loc[p].fallbacks = 1
        /\ sent[p].upd.issued /\ ~sent[p].add.issued
\* C25: the field update of an orders/updated delivery contains a category
\* iff the category recomputed from the tags differs from the category
\* stored on the deal, whatever the stored value, and then it is the
\* recomputed one
C25_CategoryOnlyWhenDifferent ==
    \A p \in Procs :
        IsUpdate(p) =>
            LET recomputed == CategoryFromTags(req[p].order.tags)
                stored == loc[p].deal.CATEGORY_ID
                written == sent[p].upd.fields.CATEGORY_ID
            IN /\ written # NoCategory <=> recomputed # stored
               /\ written # NoCategory => written = recomputed

\* C26: the field update of an orders/updated delivery carries the mapper's
\* amount, discount, tax and shipping as they are, null included
C26_MonetaryOverwriteKeepsNull ==
    \A p \in Procs :
        IsUpdate(p) =>
            LET mappedFields == MapOrder(req[p].order, NoCategory).dealFields
                fields == sent[p].upd.fields
            IN /\ fields.OPPORTUNITY = mappedFields.OPPORTUNITY
               /\ fields.UF_SHOPIFY_TOTAL_DISCOUNT = mappedFields.UF_SHOPIFY_TOTAL_DISCOUNT
               /\ fields.UF_SHOPIFY_TOTAL_TAX = mappedFields.UF_SHOPIFY_TOTAL_TAX
               /\ fields.UF_SHOPIFY_SHIPPING_PRICE = mappedFields.UF_SHOPIFY_SHIPPING_PRICE

\* financial statuses the stage policy does not know
UnknownStatuses == {"disputed", Absent}

\* C27: an orders/updated delivery with an unrecognized or missing
\* financial status writes the stage the deal had when it was looked up,
\* and the deal is in that stage afterwards, also when the tags give
\* another category than the stored one
C27_UnknownStatusKeepsStage ==
    \A p \in Procs :
        (IsUpdate(p) /\ req[p].order.financial_status \in UnknownStatuses) =>
            /\ sent[p].upd.fields.STAGE_ID = loc[p].deal.STAGE_ID
            /\ crm[loc[p].dealId].STAGE_ID = loc[p].deal.STAGE_ID

\* a deal that had been moved to the won stage of the stock category keeps
\* it through an update without status whose tags give the pre-order
\* category
C27_Witness ==
    \E p \in Procs :
        /\ IsUpdate(p) /\ pc[p] = "done" /\ req[p].order.financial_status = Absent
        /\ loc[p].deal.STAGE_ID = StageId(CATEGORY_STOCK, "WON")
        /\ crm[loc[p].dealId].STAGE_ID = StageId(CATEGORY_STOCK, "WON")
        /\ CategoryFromTags(req[p].order.tags) = CATEGORY_PREORDER

\* the stage identifiers of a category
StageSpace(cat) == {StageId(cat, name) : name \in {"NEW", "WON", "LOSE"}}

\* C28: a field update that changes the category also writes a stage of the
\* new category, and after an orders/updated delivery the deal's stage
\* belongs to the deal's category
C28_StageInsideCategory ==
    \A p \in Procs :
        IsUpdate(p) =>
            LET fields == sent[p].upd.fields
                d == crm[loc[p].dealId]
            IN /\ fields.CATEGORY_ID # NoCategory => fields.STAGE_ID \in StageSpace(fields.CATEGORY_ID)
               /\ pc[p] = "done" => d.STAGE_ID \in StageSpace(d.CATEGORY_ID)
\* the trimmed 'first last' of a person, the empty string when the person is
\* absent or has no name
NameOf(person) ==
    IF ~person.present THEN <<>>
    ELSE Trim(OrEmpty(GetValue(person.first_name)) \o <<" ">> \o OrEmpty(GetValue(person.last_name)))

\* C29: the customer name is the customer's trimmed name when that is not
\* empty, otherwise the billing address's when that is not empty, otherwise
\* null; never the empty string
C29_NameFallbackChain ==
    mOut # Pending =>
        /\ mOut # Str(<<>>)
        /\ mOut = (IF NameOf(mIn.customer) # <<>> THEN Str(NameOf(mIn.customer))
                   ELSE IF NameOf(mIn.billing_address) # <<>> THEN Str(NameOf(mIn.billing_address))
                   ELSE Null)
\* C30: in the list getAllEvents returned, an event stored after another
\* comes before it
C30_NewestFirst ==
    \A i, j \in 1..Len(got) : i < j => got[i].id.n > got[j].id.n
\* what a deduplicated read of store st is: events of st, one per order id
\* and that one the last stored for it, every event without order id once
DedupOf(result, st) ==
    LET withId == {k \in 1..Len(st) : Truthy(st[k].orderId)}
        withoutId == (1..Len(st)) \ withId
        orderIds == {st[k].orderId : k \in withId}
        lastOf(o) == CHOOSE k \in withId : st[k].orderId = o /\ \A m \in withId : st[m].orderId = o => m <= k
    IN /\ \A i \in 1..Len(result) : \E k \in 1..Len(st) : result[i] = st[k]
       /\ \A o \in orderIds :
              /\ Cardinality({i \in 1..Len(result) : result[i].orderId = o}) = 1
              /\ \E i \in 1..Len(result) : result[i] = st[lastOf(o)]
       /\ \A k \in withoutId : Cardinality({i \in 1..Len(result) : result[i] = st[k]}) = 1
       /\ Len(result) = Cardinality(orderIds) + Cardinality(withoutId)

\* C31: a getAllEvents call returns one event per order id stored since the
\* last clearEvents, the last stored one, and every event without order id,
\* and leaves the store as it was; getEventsCount is always the number of
\* storeEvent calls since the last clearEvents
C31_ReadTimeDedup ==
    [][/\ GetEventsCount(storage') = stores'
       /\ CallGetAllEvents =>
              (DedupOf(got', storage) /\ storage' = storage
               /\ GetEventsCount(storage') = GetEventsCount(storage))]_vars

\* two events of order 1 around one without order id were read as the
\* event without id and the later event of order 1
C31_Witness ==
    /\ Len(storage) = 3 /\ stores = 3 /\ got = GetAllEvents(storage) /\ Len(got) = 2
    /\ storage[1].orderId = Num(100) /\ storage[3].orderId = Num(100) /\ storage[2].orderId = Null
    /\ got[1] = storage[2] /\ got[2] = storage[3]
====
